---------------------------- MODULE Spec2Model ----------------------------
(***************************************************************************)
(* Motor calibration diagnostics of lerobot:                               *)
(*   lerobot/motors/diagnostics.py       diagnose_motor, diagnose_motor_bus*)
(*   lerobot/scripts/lerobot_calibrate.py  calibrate (--diagnose)          *)
(*   lerobot/scripts/debug_gripper.py      debug_gripper                   *)
(*   lerobot/scripts/debug_gripper_direct.py  debug_gripper                *)
(*                                                                         *)
(* One run of one entry point is modelled.  Every bus.read, bus.write and  *)
(* input() is one step whose outcome (a position, or an exception) is      *)
(* chosen by the environment.  Log lines and prints are not modelled; the  *)
(* texts of warnings and errors are abstracted to tags.                    *)
(***************************************************************************)
EXTENDS Integers, Sequences, FiniteSets, TLC

\* ------------------------------------------------------------------ bounds

\* Number of motors on the bus.
MaxMotors == 2

\* Names a bus can give its motors; the bus holds the first MaxMotors of them.
MotorNames == <<"gripper", "wrist_roll", "elbow_flex", "shoulder_lift">>

\* Raw encoder positions a Present_Position read returns in a bus diagnostic.
\* They are chosen so that pairs differ by 0, by less than 100, by exactly 100
\* and by more, in both directions, and so that probes fall on the ends of,
\* inside and outside the [-10, 110] band.
Positions == {40, 50, 150, 160}

\* The positions the gripper returns in the debug scripts: the same, and one
\* that makes differences below 10.
GripperPositions == Positions \cup {45}

\* ------------------------------------------------------- values and helpers

\* Python's None and a present value, as sequences of length 0 and 1.
None == <<>>
Some(v) == <<v>>

Abs(x) == IF x < 0 THEN -x ELSE x

\* list(bus.motors.keys())
BusMotors == SubSeq(MotorNames, 1, MaxMotors)

Range(s) == {s[k] : k \in DOMAIN s}

Reverse(s) == [k \in 1..Len(s) |-> s[Len(s) + 1 - k]]

\* The motors argument a caller of diagnose_motor_bus passes: None (all
\* motors of the bus), or a list: empty, one motor, one motor twice, two
\* motors in another order than the bus's.
MotorLists ==
    {None, Some(<<>>), Some(<<BusMotors[1]>>), Some(<<BusMotors[1], BusMotors[1]>>),
     Some(<<BusMotors[2], BusMotors[1]>>)}

\* Tags of the messages appended to result.errors and result.warnings.
ErrPosition == "Cannot read motor position"
ErrZero == "Cannot read zero position"
ErrMax == "Cannot read maximum position"
ErrNoChange == "Position did not change between zero and max"
WarnSmallRange == "Very small position range"
WarnOutOfRange == "Current position calibrates outside normal range"

\* ------------------------------------------------------------------- state

VARIABLES
    entry,          \* the entry point that runs
    pc,             \* position in the running code
    cfg,            \* CalibrateConfig: [teleop, robot, diagnose, device, has_bus]
    interactive,    \* argument of diagnose_motor_bus / diagnose_motor
    motors,         \* argument of diagnose_motor_bus: None or a list of names
    idx,            \* position of the for loop over motors (1-based)
    results,        \* dict of diagnose_motor_bus: motor name -> result
    result,         \* the MotorDiagnosticResult diagnose_motor is building
    zero_pos,       \* local of diagnose_motor and of the scripts
    max_pos,        \* local of diagnose_motor; rotated_pos of the scripts
    position_diff,  \* local of diagnose_motor; difference of the scripts
    current_pos,    \* local of diagnose_motor; test_pos of the scripts
    calib_value,    \* local: the calibrated percentage, as a fraction
    all_healthy,    \* local of diagnose_motor_bus (from the error lists)
    cal_all_healthy,\* local of calibrate (from the healthy flags)
    printed,        \* findings the debug scripts print (ERROR / WARNING lines)
    io,             \* history: every bus operation, prompt and device call
    denominators,   \* history: every divisor a normalization divided by
    harness         \* the recording and replaying bus of a repeated run

vars == <<entry, pc, cfg, interactive, motors, idx, results, result, zero_pos,
          max_pos, position_diff, current_pos, calib_value, all_healthy,
          cal_all_healthy, printed, io, denominators, harness>>

\* What the run was started with, the locals of diagnose_motor (and of the
\* scripts), and the two verdicts.
args == <<entry, cfg, interactive>>
locals == <<zero_pos, max_pos, position_diff, current_pos, calib_value>>
verdicts == <<all_healthy, cal_all_healthy, printed>>

\* One entry of the history: the operation, the diagnose_motor call it
\* belongs to (0 outside diagnose_motor) and the motor it addresses.
Event(op, call, motor) == [op |-> op, call |-> call, motor |-> motor]

\* The events of the k-th diagnose_motor call of the run.
EventsOf(k) == SelectSeq(io, LAMBDA e : e.call = k)

Ops(s) == [k \in 1..Len(s) |-> s[k].op]

\* --------------------------------------------------- MotorDiagnosticResult

\* Mutant: warnings and errors default to one list object that every result
\* shares, so a new result starts with what the results before it collected.
NewResult_SharedLists(motor_name) ==
    [motor_name |-> motor_name,
     healthy |-> TRUE,
     position_readable |-> FALSE,
     position_changes |-> FALSE,
     position_range |-> 0,
     zero_position |-> None,
     max_position |-> None,
     warnings |-> IF DOMAIN results = {} THEN <<>>
                  ELSE results[CHOOSE name \in DOMAIN results : TRUE].warnings,
     errors |-> IF DOMAIN results = {} THEN <<>>
                ELSE results[CHOOSE name \in DOMAIN results : TRUE].errors]

\* diagnose_motor's initial result; __post_init__ gives each result its own
\* empty warnings and errors lists.
NewResult(motor_name) ==
    [motor_name |-> motor_name,
     healthy |-> TRUE,
     position_readable |-> FALSE,
     position_changes |-> FALSE,
     position_range |-> 0,
     zero_position |-> None,
     max_position |-> None,
     warnings |-> <<>>,
     errors |-> <<>>]

NoResult == None

\* Mutant: the handler forgets result.healthy = False.
ReadFailure_KeepsHealthy(r, msg) == [r EXCEPT !.errors = Append(@, msg)]

\* Mutant: the handler appends to result.warnings.
ReadFailure_AsWarning(r, msg) ==
    [r EXCEPT !.healthy = FALSE, !.warnings = Append(@, msg)]

\* The body of the three "except Exception" handlers of the required reads:
\* result.healthy = False; result.errors.append(...).
ReadFailure(r, msg) == [r EXCEPT !.healthy = FALSE, !.errors = Append(@, msg)]

\* position_diff = abs(max_pos - zero_pos)
PositionDiff(zero, max) == Abs(max - zero)

\* Mutant: the "position_diff == 0" branch is missing; a zero range falls
\* into the small-range branch.
Classify_ZeroAsSmall(r, diff) ==
    LET r1 == [r EXCEPT !.position_range = diff, !.position_changes = (diff > 0)]
    IN  IF diff < 100
        THEN [r1 EXCEPT !.warnings = Append(@, WarnSmallRange)]
        ELSE [r1 EXCEPT !.position_changes = TRUE]

\* Mutant: the small-range branch tests "position_diff < 10".
Classify_SmallBelow10(r, diff) ==
    LET r1 == [r EXCEPT !.position_range = diff, !.position_changes = (diff > 0)]
    IN  IF diff = 0
        THEN [r1 EXCEPT !.healthy = FALSE, !.errors = Append(@, ErrNoChange)]
        ELSE IF diff < 10
        THEN [r1 EXCEPT !.warnings = Append(@, WarnSmallRange)]
        ELSE [r1 EXCEPT !.position_changes = TRUE]

\* Mutant: the small-range branch tests "position_diff <= 100".
Classify_SmallUpTo100(r, diff) ==
    LET r1 == [r EXCEPT !.position_range = diff, !.position_changes = (diff > 0)]
    IN  IF diff = 0
        THEN [r1 EXCEPT !.healthy = FALSE, !.errors = Append(@, ErrNoChange)]
        ELSE IF diff <= 100
        THEN [r1 EXCEPT !.warnings = Append(@, WarnSmallRange)]
        ELSE [r1 EXCEPT !.position_changes = TRUE]

\* Mutant: position_changes is set only in the branch of a good range.
Classify_ChangesOnlyWhenWide(r, diff) ==
    LET r1 == [r EXCEPT !.position_range = diff]
    IN  IF diff = 0
        THEN [r1 EXCEPT !.healthy = FALSE, !.errors = Append(@, ErrNoChange)]
        ELSE IF diff < 100
        THEN [r1 EXCEPT !.warnings = Append(@, WarnSmallRange)]
        ELSE [r1 EXCEPT !.position_changes = TRUE]

\* "Analyze results": the range is stored, then classified.
Classify(r, diff) ==
    LET r1 == [r EXCEPT !.position_range = diff, !.position_changes = (diff > 0)]
    IN  IF diff = 0
        THEN [r1 EXCEPT !.healthy = FALSE, !.errors = Append(@, ErrNoChange)]
        ELSE IF diff < 100
        THEN [r1 EXCEPT !.warnings = Append(@, WarnSmallRange)]
        ELSE [r1 EXCEPT !.position_changes = TRUE]

\* Mutant: the calibration formula is tested only while no formula has been
\* tested on this bus before.
TestsFormula_OncePerBus(diff) == diff > 0 /\ denominators = {}

\* Mutant: "if position_diff >= 0".
TestsFormula_AlsoZero(diff) == diff >= 0

\* "if position_diff > 0": the calibration formula is tested.
TestsFormula(diff) == diff > 0

\* (pos - zero) / span * 100 on integer positions, kept as the exact fraction
\* num / den of the real quotient; Python computes it in binary64, rounding
\* the quotient and then the product.  A zero span raises ZeroDivisionError
\* in Python; no value is produced then.
Normalize(pos, zero, span) == [num |-> (pos - zero) * 100, den |-> span]

\* The exact value compared with an integer n, for either sign of the divisor.
FracLess(f, n) == IF f.den > 0 THEN f.num < n * f.den ELSE f.num > n * f.den
FracGreater(f, n) == IF f.den > 0 THEN f.num > n * f.den ELSE f.num < n * f.den

\* The computed float equals n, for n in {-100, 0, 100}: there the quotient
\* is -1, 0 or 1 and both roundings are exact, so the float is the exact value.
FracIs(f, n) == f.num = n * f.den

\* The float comparisons of the range check on the computed value.  An exact
\* value off the bound is off it by at least 1 / |span|, far beyond the
\* rounding error, so the float compares as the exact value does.  On the
\* bounds the roundings decide: an exact 110 has the quotient 1.1, which
\* rounds up, and 1.1 * 100 is computed as 110.00000000000001 > 110; an
\* exact -10 has the quotient -0.1 and -0.1 * 100 is computed as -10.0.
FloatLessMinus10(f) == FracLess(f, -10)
FloatGreater110(f) == FracGreater(f, 110) \/ f.num = 110 * f.den

\* "if calib_value < -10 or calib_value > 110"
OutOfRange(f) == FloatLessMinus10(f) \/ FloatGreater110(f)

\* Mutant: the summary clears all_healthy for warnings too.
SummaryAllHealthy_CountsWarnings(res) ==
    \A name \in DOMAIN res : res[name].errors = <<>> /\ res[name].warnings = <<>>

\* The summary loop of diagnose_motor_bus: all_healthy starts True and is
\* cleared by every result whose errors list is non-empty.
SummaryAllHealthy(res) == \A name \in DOMAIN res : res[name].errors = <<>>

\* calibrate: all(r.healthy for r in results.values())
AllHealthy(res) == \A name \in DOMAIN res : res[name].healthy

\* --------------------------------------------------------------------- Init

\* A failed read: bus.read raises.  A successful read is Some(value).
Raises == None

\* The bus as diagnose_motor sees it is either the real one (mode "off") or a
\* test double that, for the call at position `target` of the loop, records
\* the outcome of every read ("record") or hands out the recorded outcomes
\* again ("replay"); result and peers hold what the recorded run returned for
\* that call and whether the other motors were healthy in it.
HarnessOff ==
    [mode |-> "off", target |-> 0, outcomes |-> <<>>, result |-> None, peers |-> TRUE]

\* The fields of CalibrateConfig as its constructor gets them (device is set
\* by __post_init__), and has_bus: whether the device made from the config
\* has a bus attribute.  Outside calibrate there is no config.
NoConfig ==
    [teleop |-> None, robot |-> None, diagnose |-> FALSE, device |-> None,
     has_bus |-> FALSE]

Entries == {"calibrate", "diagnose_motor_bus", "debug_gripper", "debug_gripper_direct"}

EmptyDict == [name \in {} |-> NoResult]

Init ==
    /\ entry \in Entries
    /\ pc = CASE entry = "calibrate" -> "cal_config"
              [] entry = "diagnose_motor_bus" -> "bus_start"
              [] OTHER -> "dbg_connect"
    /\ cfg \in [teleop : {None, Some("teleop")}, robot : {None, Some("robot")},
                diagnose : BOOLEAN, device : {None}, has_bus : BOOLEAN]
    /\ entry # "calibrate" => cfg = NoConfig
    /\ interactive \in BOOLEAN
    /\ entry # "diagnose_motor_bus" => interactive = TRUE
    /\ motors \in MotorLists
    /\ entry # "diagnose_motor_bus" => motors = None
    /\ idx = 0
    /\ results = EmptyDict
    /\ result = NoResult
    /\ zero_pos = None
    /\ max_pos = None
    /\ position_diff = None
    /\ current_pos = None
    /\ calib_value = None
    /\ all_healthy = None
    /\ cal_all_healthy = None
    /\ printed = <<>>
    /\ io = <<>>
    /\ denominators = {}
    /\ harness = HarnessOff

\* ------------------------------------------------------- diagnose_motor_bus

\* The list the for loop runs over.
MotorList == motors[1]

\* Mutant: the motors argument is ignored; every motor of the bus is tested.
BusStart_IgnoresList ==
    /\ pc = "bus_start"
    /\ motors' = Some(BusMotors)
    /\ results' = EmptyDict
    /\ idx' = 1
    /\ pc' = "bus_loop"
    /\ UNCHANGED <<args, result, locals, verdicts, io, denominators>>
    /\ UNCHANGED harness

\* if motors is None: motors = list(bus.motors.keys()); results = {}
BusStart ==
    /\ pc = "bus_start"
    /\ motors' = (IF motors = None THEN Some(BusMotors) ELSE motors)
    /\ results' = EmptyDict
    /\ idx' = 1
    /\ pc' = "bus_loop"
    /\ UNCHANGED <<args, result, locals, verdicts, io, denominators>>
    /\ UNCHANGED harness

\* for motor_name in motors: diagnose_motor(bus, motor_name, interactive) is
\* entered and builds its initial result.
BusNextMotor ==
    /\ pc = "bus_loop"
    /\ idx <= Len(MotorList)
    /\ result' = NewResult(MotorList[idx])
    /\ pc' = "dm_position"
    /\ UNCHANGED <<args, motors, idx, results, locals, verdicts, io, denominators>>
    /\ UNCHANGED harness

\* "return result" of diagnose_motor and results[motor_name] = ... of the
\* loop: the dict entry is set, the locals of the call are gone, the loop
\* moves on.
Return(r) ==
    /\ results' = (r.motor_name :> r) @@ results
    /\ result' = NoResult
    /\ zero_pos' = None
    /\ max_pos' = None
    /\ position_diff' = None
    /\ current_pos' = None
    /\ calib_value' = None
    /\ idx' = idx + 1
    /\ pc' = "bus_loop"

\* The locals and the loop are left alone; diagnose_motor goes on at `next`.
Continue(r, next) ==
    /\ result' = r
    /\ pc' = next
    /\ UNCHANGED <<results, idx>>

\* The summary after the loop; diagnose_motor_bus returns results.
BusSummary ==
    /\ pc = "bus_loop"
    /\ idx > Len(MotorList)
    /\ all_healthy' = Some(SummaryAllHealthy(results))
    /\ pc' = (IF entry = "calibrate" THEN "cal_verdict" ELSE "done")
    /\ UNCHANGED <<args, motors, idx, results, result, locals,
                   cal_all_healthy, printed, io, denominators>>
    /\ UNCHANGED harness

\* ----------------------------------------------------------- diagnose_motor

Log(op) == io' = Append(io, Event(op, idx, result.motor_name))

\* bus.read("Present_Position", motor_name) with the given outcome: the
\* operation is logged; a recording bus notes the outcome of the watched
\* call, a replaying bus gives the watched call the next recorded outcome.
Read(outcome) ==
    /\ Log(IF outcome = Raises THEN "read_fail" ELSE "read_ok")
    /\ IF idx # harness.target
       THEN UNCHANGED harness
       ELSE IF harness.mode = "record"
       THEN harness' = [harness EXCEPT !.outcomes = Append(@, outcome)]
       ELSE /\ harness.outcomes # <<>>
            /\ outcome = Head(harness.outcomes)
            /\ harness' = [harness EXCEPT !.outcomes = Tail(@)]

\* Mutant: "if not interactive: return result" is missing.
DmReadPosition_IgnoresInteractive ==
    /\ pc = "dm_position"
    /\ \/ /\ Read(Raises)
          /\ Return(ReadFailure(result, ErrPosition))
       \/ /\ \E initial_pos \in Positions : Read(Some(initial_pos))
          /\ Continue([result EXCEPT !.position_readable = TRUE], "dm_prompt_zero")
          /\ UNCHANGED locals
    /\ UNCHANGED <<args, motors, verdicts, denominators>>

\* Mutant: the handler of the first read lacks its "return result".
DmReadPosition_NoReturn ==
    /\ pc = "dm_position"
    /\ \/ /\ Read(Raises)
          /\ Continue(ReadFailure(result, ErrPosition), "dm_prompt_zero")
          /\ UNCHANGED locals
       \/ /\ \E initial_pos \in Positions : Read(Some(initial_pos))
          /\ LET r == [result EXCEPT !.position_readable = TRUE]
             IN  IF ~interactive
                 THEN Return(r)
                 ELSE Continue(r, "dm_prompt_zero") /\ UNCHANGED locals
    /\ UNCHANGED <<args, motors, verdicts, denominators>>

\* Test 1: bus.read("Present_Position", motor_name) in try/except; on an
\* exception the error is recorded and the result returned; with
\* interactive false the result is returned after the read.
DmReadPosition ==
    /\ pc = "dm_position"
    /\ \/ /\ Read(Raises)
          /\ Return(ReadFailure(result, ErrPosition))
       \/ /\ \E initial_pos \in Positions : Read(Some(initial_pos))
          /\ LET r == [result EXCEPT !.position_readable = TRUE]
             IN  IF ~interactive
                 THEN Return(r)
                 ELSE Continue(r, "dm_prompt_zero") /\ UNCHANGED locals
    /\ UNCHANGED <<args, motors, verdicts, denominators>>

\* Mutant: torque is enabled before the operator is asked to move the motor,
\* as the debug scripts do.
DmPromptZero_EnablesTorque ==
    /\ pc = "dm_prompt_zero"
    /\ io' = io \o <<Event("write_ok", idx, result.motor_name),
                      Event("prompt_zero", idx, result.motor_name)>>
    /\ pc' = "dm_read_zero"
    /\ UNCHANGED <<args, motors, idx, results, result, locals, verdicts, denominators>>
    /\ UNCHANGED harness

\* input("Move ... to its MINIMUM/ZERO position ..., then press ENTER...")
DmPromptZero ==
    /\ pc = "dm_prompt_zero"
    /\ Log("prompt_zero")
    /\ pc' = "dm_read_zero"
    /\ UNCHANGED <<args, motors, idx, results, result, locals, verdicts, denominators>>
    /\ UNCHANGED harness

\* Mutant: the handler of the zero read lacks its "return result".
DmReadZero_NoReturn ==
    /\ pc = "dm_read_zero"
    /\ \/ /\ Read(Raises)
          /\ Continue(ReadFailure(result, ErrZero), "dm_prompt_max")
          /\ UNCHANGED locals
       \/ \E v \in Positions :
            /\ Read(Some(v))
            /\ zero_pos' = Some(v)
            /\ Continue([result EXCEPT !.zero_position = Some(v)], "dm_prompt_max")
            /\ UNCHANGED <<max_pos, position_diff, current_pos, calib_value>>
    /\ UNCHANGED <<args, motors, verdicts, denominators>>

\* Mutant: the zero read has no try/except; its exception leaves
\* diagnose_motor and diagnose_motor_bus.
DmReadZero_Propagates ==
    /\ pc = "dm_read_zero"
    /\ \/ /\ Read(Raises)
          /\ pc' = "raised"
          /\ UNCHANGED <<results, result, idx, locals>>
       \/ \E v \in Positions :
            /\ Read(Some(v))
            /\ zero_pos' = Some(v)
            /\ Continue([result EXCEPT !.zero_position = Some(v)], "dm_prompt_max")
            /\ UNCHANGED <<max_pos, position_diff, current_pos, calib_value>>
    /\ UNCHANGED <<args, motors, verdicts, denominators>>

\* Test 2: zero_pos = bus.read(...); result.zero_position = zero_pos; on an
\* exception the error is recorded and the result returned.
DmReadZero ==
    /\ pc = "dm_read_zero"
    /\ \/ /\ Read(Raises)
          /\ Return(ReadFailure(result, ErrZero))
       \/ \E v \in Positions :
            /\ Read(Some(v))
            /\ zero_pos' = Some(v)
            /\ Continue([result EXCEPT !.zero_position = Some(v)], "dm_prompt_max")
            /\ UNCHANGED <<max_pos, position_diff, current_pos, calib_value>>
    /\ UNCHANGED <<args, motors, verdicts, denominators>>

\* input("Move ... to its MAXIMUM position ..., then press ENTER...")
DmPromptMax ==
    /\ pc = "dm_prompt_max"
    /\ Log("prompt_max")
    /\ pc' = "dm_read_max"
    /\ UNCHANGED <<args, motors, idx, results, result, locals, verdicts, denominators>>
    /\ UNCHANGED harness

\* Mutant: the handler of the max read reads again instead of returning.
DmReadMax_Retries ==
    /\ pc = "dm_read_max"
    /\ \/ /\ Read(Raises)
          /\ Continue(ReadFailure(result, ErrMax), "dm_read_max")
          /\ UNCHANGED locals
       \/ \E v \in Positions :
            /\ Read(Some(v))
            /\ max_pos' = Some(v)
            /\ Continue([result EXCEPT !.max_position = Some(v)], "dm_classify")
            /\ UNCHANGED <<zero_pos, position_diff, current_pos, calib_value>>
    /\ UNCHANGED <<args, motors, verdicts, denominators>>

\* Test 3: max_pos = bus.read(...); result.max_position = max_pos; on an
\* exception the error is recorded and the result returned.
DmReadMax ==
    /\ pc = "dm_read_max"
    /\ \/ /\ Read(Raises)
          /\ Return(ReadFailure(result, ErrMax))
       \/ \E v \in Positions :
            /\ Read(Some(v))
            /\ max_pos' = Some(v)
            /\ Continue([result EXCEPT !.max_position = Some(v)], "dm_classify")
            /\ UNCHANGED <<zero_pos, position_diff, current_pos, calib_value>>
    /\ UNCHANGED <<args, motors, verdicts, denominators>>

\* Mutant: on a zero range the analysis waits for the positions to differ,
\* without reading them again.
DmClassify_WaitsForRange ==
    /\ pc = "dm_classify"
    /\ LET diff == PositionDiff(zero_pos[1], max_pos[1])
       IN  IF diff = 0
           THEN UNCHANGED <<position_diff, result, pc, results, idx>>
           ELSE /\ position_diff' = Some(diff)
                /\ Continue(Classify(result, diff),
                            IF TestsFormula(diff) THEN "dm_test_formula" ELSE "dm_return")
    /\ UNCHANGED <<args, motors, zero_pos, max_pos, current_pos, calib_value,
                   verdicts, io, denominators>>
    /\ UNCHANGED harness

\* "Calculate range" and "Analyze results"; then the calibration formula is
\* tested if the range allows it.
DmClassify ==
    /\ pc = "dm_classify"
    /\ LET diff == PositionDiff(zero_pos[1], max_pos[1])
       IN  /\ position_diff' = Some(diff)
           /\ Continue(Classify(result, diff),
                       IF TestsFormula(diff) THEN "dm_test_formula" ELSE "dm_return")
    /\ UNCHANGED <<args, motors, zero_pos, max_pos, current_pos, calib_value,
                   verdicts, io, denominators>>
    /\ UNCHANGED harness

\* Mutant: the probe is taken as the scripts take it, after an input() of its
\* own.
DmTestFormula_Prompts ==
    /\ pc = "dm_test_formula"
    /\ \/ /\ io' = io \o <<Event("prompt_test", idx, result.motor_name),
                            Event("read_fail", idx, result.motor_name)>>
          /\ Continue(result, "dm_return")
          /\ UNCHANGED <<locals, denominators>>
       \/ \E v \in Positions :
            /\ io' = io \o <<Event("prompt_test", idx, result.motor_name),
                              Event("read_ok", idx, result.motor_name)>>
            /\ current_pos' = Some(v)
            /\ denominators' = denominators \cup {position_diff[1]}
            /\ calib_value' = Some(Normalize(v, zero_pos[1], position_diff[1]))
            /\ Continue(IF OutOfRange(Normalize(v, zero_pos[1], position_diff[1]))
                        THEN [result EXCEPT !.warnings = Append(@, WarnOutOfRange)]
                        ELSE result,
                        "dm_return")
            /\ UNCHANGED <<zero_pos, max_pos, position_diff>>
    /\ UNCHANGED <<args, motors, verdicts>>
    /\ UNCHANGED harness

\* "Test calibration formula": one read of the current position in
\* try/except, normalized against the recorded zero and range; an exception
\* (of the read, or of the division) is logged only.
DmTestFormula ==
    /\ pc = "dm_test_formula"
    /\ \/ /\ Read(Raises)
          /\ Continue(result, "dm_return")
          /\ UNCHANGED <<locals, denominators>>
       \/ \E v \in Positions :
            /\ Read(Some(v))
            /\ current_pos' = Some(v)
            /\ denominators' = denominators \cup {position_diff[1]}
            /\ IF position_diff[1] = 0
               THEN Continue(result, "dm_return") /\ UNCHANGED calib_value
               ELSE LET calib == Normalize(v, zero_pos[1], position_diff[1])
                    IN  /\ calib_value' = Some(calib)
                        /\ Continue(IF OutOfRange(calib)
                                    THEN [result EXCEPT !.warnings = Append(@, WarnOutOfRange)]
                                    ELSE result,
                                    "dm_return")
            /\ UNCHANGED <<zero_pos, max_pos, position_diff>>
    /\ UNCHANGED <<args, motors, verdicts>>

\* The final "return result" of diagnose_motor.
DmReturn ==
    /\ pc = "dm_return"
    /\ Return(result)
    /\ UNCHANGED <<args, motors, verdicts, io, denominators>>
    /\ UNCHANGED harness

\* ---------------------------------------------------------------- calibrate

\* The answers the operator types at "proceed with calibration? (y/n)".
Answers == {<<"y">>, <<" ", "Y", " ">>, <<"n">>, <<>>, <<"y", "e", "s">>}

IsSpace(c) == c = " "

RECURSIVE LStrip(_)
LStrip(str) ==
    IF str # <<>> /\ IsSpace(Head(str)) THEN LStrip(Tail(str)) ELSE str

\* str.strip()
Strip(str) == Reverse(LStrip(Reverse(LStrip(str))))

\* str.lower(), over the letters the answers use
Lower(str) == [k \in 1..Len(str) |-> IF str[k] = "Y" THEN "y" ELSE str[k]]

\* user_input.strip().lower() == "y"
SaysYes(user_input) == Lower(Strip(user_input)) = <<"y">>

Device(op) == io' = Append(io, Event(op, 0, "device"))

\* bool() of an optional config object: None is false, a config is true.
Truthy(config) == config # None

\* Mutant: the constructor refuses only a config with neither.
PostInitRaises_OnlyNeither(teleop, robot) == ~Truthy(teleop) /\ ~Truthy(robot)

\* if bool(self.teleop) == bool(self.robot): raise ValueError(...)
PostInitRaises(teleop, robot) == Truthy(teleop) = Truthy(robot)

\* self.device = self.robot if self.robot else self.teleop
DeviceOf(teleop, robot) == IF Truthy(robot) THEN robot ELSE teleop

\* CalibrateConfig.__post_init__, run when the command line is parsed into
\* the config calibrate is called with; its ValueError ends the command.
CalConfig ==
    /\ pc = "cal_config"
    /\ IF PostInitRaises(cfg.teleop, cfg.robot)
       THEN pc' = "raised" /\ UNCHANGED cfg
       ELSE /\ cfg' = [cfg EXCEPT !.device = DeviceOf(cfg.teleop, cfg.robot)]
            /\ pc' = "cal_start"
    /\ UNCHANGED <<entry, interactive, motors, idx, results, result, locals, verdicts,
                   io, denominators>>
    /\ UNCHANGED harness

\* device.connect(calibrate=False)
CalConnect ==
    /\ pc = "cal_start"
    /\ Device("connect")
    /\ pc' = "cal_connected"
    /\ UNCHANGED <<args, motors, idx, results, result, locals, verdicts, denominators>>
    /\ UNCHANGED harness

\* Mutant: the branch of a device without a bus returns without
\* device.disconnect().
CalNoBus_NoDisconnect ==
    /\ pc = "cal_connected"
    /\ cfg.diagnose /\ ~cfg.has_bus
    /\ pc' = "done"
    /\ UNCHANGED <<args, motors, idx, results, result, locals, verdicts, io, denominators>>
    /\ UNCHANGED harness

\* cfg.diagnose and the device has no bus: device.disconnect(); return
CalNoBus ==
    /\ pc = "cal_connected"
    /\ cfg.diagnose /\ ~cfg.has_bus
    /\ Device("disconnect")
    /\ pc' = "done"
    /\ UNCHANGED <<args, motors, idx, results, result, locals, verdicts, denominators>>
    /\ UNCHANGED harness

\* results = diagnose_motor_bus(device.bus, interactive=True)
CalDiagnose ==
    /\ pc = "cal_connected"
    /\ cfg.diagnose /\ cfg.has_bus
    /\ interactive' = TRUE
    /\ motors' = None
    /\ pc' = "bus_start"
    /\ UNCHANGED <<entry, cfg, idx, results, result, locals, verdicts, io, denominators>>
    /\ UNCHANGED harness

\* Mutant: the operator is asked whatever the diagnostics found.
CalVerdict_AlwaysAsks ==
    /\ pc = "cal_verdict"
    /\ cal_all_healthy' = Some(AllHealthy(results))
    /\ pc' = "cal_ask"
    /\ UNCHANGED <<args, motors, idx, results, result, locals, all_healthy,
                   printed, io, denominators>>
    /\ UNCHANGED harness

\* all_healthy = all(r.healthy ...); the failure branch only logs.
CalVerdict ==
    /\ pc = "cal_verdict"
    /\ cal_all_healthy' = Some(AllHealthy(results))
    /\ pc' = (IF AllHealthy(results) THEN "cal_ask" ELSE "cal_disconnect")
    /\ UNCHANGED <<args, motors, idx, results, result, locals, all_healthy,
                   printed, io, denominators>>
    /\ UNCHANGED harness

\* user_input = input(...); device.calibrate() if the answer is "y"
CalAnswer ==
    /\ pc = "cal_ask"
    /\ \E user_input \in Answers :
         io' = io \o <<Event("prompt_proceed", 0, "device")>>
                  \o (IF SaysYes(user_input)
                      THEN <<Event("calibrate", 0, "device")>> ELSE <<>>)
    /\ pc' = "cal_disconnect"
    /\ UNCHANGED <<args, motors, idx, results, result, locals, verdicts, denominators>>
    /\ UNCHANGED harness

\* Normal calibration workflow: device.calibrate()
CalNormal ==
    /\ pc = "cal_connected"
    /\ ~cfg.diagnose
    /\ Device("calibrate")
    /\ pc' = "cal_disconnect"
    /\ UNCHANGED <<args, motors, idx, results, result, locals, verdicts, denominators>>
    /\ UNCHANGED harness

\* device.disconnect() at the end of calibrate
CalDisconnect ==
    /\ pc = "cal_disconnect"
    /\ Device("disconnect")
    /\ pc' = "done"
    /\ UNCHANGED <<args, motors, idx, results, result, locals, verdicts, denominators>>
    /\ UNCHANGED harness

\* ------------------------------------------- debug_gripper (both scripts)
\* In the scripts zero_pos is zero_pos, max_pos is rotated_pos, position_diff
\* is difference, current_pos is test_pos, calib_value is calib_val and idx
\* counts the loop the script is in.  The variants of the two scripts under
\* lerobot/scripts (outside src/lerobot) run the same steps on the same
\* formula.

Script(op, motor) == Event(op, 0, motor)

PrintZero == "ERROR: Zero difference"
PrintSmall == "WARNING: Very small difference"
PrintAcceptable == "Difference looks acceptable"
PrintOutside == "WARNING: outside the acceptable range [-10, 110]"
PrintCannot == "Cannot calculate calibrated value due to zero difference"

\* difference = rotated_pos - zero_pos
Difference(zero, rotated) == rotated - zero

\* if difference == 0 / elif abs(difference) < 10 / else
DifferenceClass(difference) ==
    IF difference = 0 THEN PrintZero
    ELSE IF Abs(difference) < 10 THEN PrintSmall
    ELSE PrintAcceptable

\* "if difference != 0": the scripts normalize only then.
Normalizes(difference) == difference # 0

\* calib_val = (test_pos - zero_pos) / difference * 100 and its range check,
\* as printed.
TestPrints(test_pos, zero, difference) ==
    IF OutOfRange(Normalize(test_pos, zero, difference)) THEN <<PrintOutside>> ELSE <<>>

\* robot.connect(); an exception goes to the outer handler and to finally.
DbgConnect ==
    /\ pc = "dbg_connect"
    /\ \/ /\ io' = Append(io, Script("connect_ok", "robot"))
          /\ idx' = 1
          /\ pc' = "dbg_read_all"
       \/ /\ io' = Append(io, Script("connect_fail", "robot"))
          /\ idx' = 0
          /\ pc' = "dbg_finally"
    /\ UNCHANGED <<args, motors, results, result, locals, verdicts, denominators>>
    /\ UNCHANGED harness

\* for motor_name in bus.motors: bus.read("Present_Position", motor_name), in
\* try/except: debug_gripper prints the exception and goes on,
\* debug_gripper_direct returns.
DbgReadAll ==
    /\ pc = "dbg_read_all"
    /\ \/ /\ \E position \in Positions :
               io' = Append(io, Script("read_ok", BusMotors[idx]))
          /\ idx' = IF idx < Len(BusMotors) THEN idx + 1 ELSE 0
          /\ pc' = IF idx < Len(BusMotors) THEN "dbg_read_all" ELSE "dbg_torque"
       \/ /\ io' = Append(io, Script("read_fail", BusMotors[idx]))
          /\ idx' = 0
          /\ pc' = IF entry = "debug_gripper" THEN "dbg_torque" ELSE "dbg_finally"
    /\ UNCHANGED <<args, motors, results, result, locals, verdicts, denominators>>
    /\ UNCHANGED harness

\* bus.write("Torque_Enable", "gripper", True) in try/except: debug_gripper
\* prints the exception and goes on, debug_gripper_direct returns.
DbgTorque ==
    /\ pc = "dbg_torque"
    /\ \/ /\ io' = Append(io, Script("write_ok", "gripper"))
          /\ pc' = "dbg_zero"
       \/ /\ io' = Append(io, Script("write_fail", "gripper"))
          /\ pc' = IF entry = "debug_gripper" THEN "dbg_zero" ELSE "dbg_finally"
    /\ UNCHANGED <<args, motors, idx, results, result, locals, verdicts, denominators>>
    /\ UNCHANGED harness

\* input(...ZERO position...); zero_pos = bus.read(...).  debug_gripper
\* catches the exception and sets zero_pos = None; in debug_gripper_direct it
\* goes to the outer handler.
DbgZero ==
    /\ pc = "dbg_zero"
    /\ \/ \E v \in GripperPositions :
            /\ io' = io \o <<Script("prompt_zero", "gripper"), Script("read_ok", "gripper")>>
            /\ zero_pos' = Some(v)
            /\ pc' = "dbg_rotated"
       \/ /\ io' = io \o <<Script("prompt_zero", "gripper"), Script("read_fail", "gripper")>>
          /\ zero_pos' = None
          /\ pc' = IF entry = "debug_gripper" THEN "dbg_rotated" ELSE "dbg_finally"
    /\ UNCHANGED <<args, motors, idx, results, result, max_pos, position_diff,
                   current_pos, calib_value, verdicts, denominators>>
    /\ UNCHANGED harness

\* input(...ROTATED position...); rotated_pos = bus.read(...), handled as
\* the zero read is.
DbgRotated ==
    /\ pc = "dbg_rotated"
    /\ \/ \E v \in GripperPositions :
            /\ io' = io \o <<Script("prompt_max", "gripper"), Script("read_ok", "gripper")>>
            /\ max_pos' = Some(v)
            /\ pc' = "dbg_check"
       \/ /\ io' = io \o <<Script("prompt_max", "gripper"), Script("read_fail", "gripper")>>
          /\ max_pos' = None
          /\ pc' = IF entry = "debug_gripper" THEN "dbg_check" ELSE "dbg_finally"
    /\ UNCHANGED <<args, motors, idx, results, result, zero_pos, position_diff,
                   current_pos, calib_value, verdicts, denominators>>
    /\ UNCHANGED harness

\* debug_gripper: "if zero_pos is not None and rotated_pos is not None":
\* difference, its class, and the test loop "if difference != 0".
GripperCheck ==
    /\ entry = "debug_gripper"
    /\ pc = "dbg_check"
    /\ IF zero_pos # None /\ max_pos # None
       THEN LET difference == Difference(zero_pos[1], max_pos[1])
            IN  /\ position_diff' = Some(difference)
                /\ printed' = Append(printed, DifferenceClass(difference))
                /\ idx' = 0
                /\ pc' = IF Normalizes(difference) THEN "dbg_test" ELSE "dbg_finally"
       ELSE /\ pc' = "dbg_finally"
            /\ UNCHANGED <<position_diff, printed, idx>>
    /\ UNCHANGED <<args, motors, results, result, zero_pos, max_pos, current_pos,
                   calib_value, all_healthy, cal_all_healthy, io, denominators>>
    /\ UNCHANGED harness

\* debug_gripper: one round of "for i in range(3)": input(), the read (an
\* exception goes to the outer handler), calib_val and its range check.
GripperTest ==
    /\ entry = "debug_gripper"
    /\ pc = "dbg_test"
    /\ \/ \E test_pos \in GripperPositions :
            /\ io' = io \o <<Script("prompt_test", "gripper"), Script("read_ok", "gripper")>>
            /\ current_pos' = Some(test_pos)
            /\ denominators' = denominators \cup {position_diff[1]}
            /\ IF position_diff[1] = 0
               THEN /\ pc' = "dbg_finally"
                    /\ UNCHANGED <<calib_value, printed, idx>>
               ELSE /\ calib_value' = Some(Normalize(test_pos, zero_pos[1], position_diff[1]))
                    /\ printed' = printed \o TestPrints(test_pos, zero_pos[1], position_diff[1])
                    /\ idx' = idx + 1
                    /\ pc' = IF idx + 1 < 3 THEN "dbg_test" ELSE "dbg_finally"
       \/ /\ io' = io \o <<Script("prompt_test", "gripper"), Script("read_fail", "gripper")>>
          /\ pc' = "dbg_finally"
          /\ UNCHANGED <<current_pos, calib_value, printed, idx, denominators>>
    /\ UNCHANGED <<args, motors, results, result, zero_pos, max_pos, position_diff,
                   all_healthy, cal_all_healthy>>
    /\ UNCHANGED harness

\* debug_gripper_direct: difference and its class; the test loop follows
\* whatever the difference is.
DirectCheck ==
    /\ entry = "debug_gripper_direct"
    /\ pc = "dbg_check"
    /\ LET difference == Difference(zero_pos[1], max_pos[1])
       IN  /\ position_diff' = Some(difference)
           /\ printed' = Append(printed, DifferenceClass(difference))
    /\ idx' = 0
    /\ pc' = "dbg_test"
    /\ UNCHANGED <<args, motors, results, result, zero_pos, max_pos, current_pos,
                   calib_value, all_healthy, cal_all_healthy, io, denominators>>
    /\ UNCHANGED harness

\* debug_gripper_direct: one round of "for i in range(3)": input(), the read
\* (an exception goes to the outer handler), and "if difference != 0" the
\* calibrated value and its range check.
DirectTest ==
    /\ entry = "debug_gripper_direct"
    /\ pc = "dbg_test"
    /\ \/ \E test_pos \in GripperPositions :
            /\ io' = io \o <<Script("prompt_test", "gripper"), Script("read_ok", "gripper")>>
            /\ current_pos' = Some(test_pos)
            /\ IF Normalizes(position_diff[1])
               THEN /\ denominators' = denominators \cup {position_diff[1]}
                    /\ calib_value' = Some(Normalize(test_pos, zero_pos[1], position_diff[1]))
                    /\ printed' = printed \o TestPrints(test_pos, zero_pos[1], position_diff[1])
               ELSE /\ printed' = Append(printed, PrintCannot)
                    /\ calib_value' = None
                    /\ UNCHANGED denominators
            /\ idx' = idx + 1
            /\ pc' = IF idx + 1 < 3 THEN "dbg_test" ELSE "dbg_finally"
       \/ /\ io' = io \o <<Script("prompt_test", "gripper"), Script("read_fail", "gripper")>>
          /\ pc' = "dbg_finally"
          /\ UNCHANGED <<current_pos, calib_value, printed, idx, denominators>>
    /\ UNCHANGED <<args, motors, results, result, zero_pos, max_pos, position_diff,
                   all_healthy, cal_all_healthy>>
    /\ UNCHANGED harness

IsConnected == \E k \in DOMAIN io : io[k].op = "connect_ok"

\* finally: debug_gripper disconnects "if robot.is_connected",
\* debug_gripper_direct whenever the robot has a disconnect method.
DbgFinally ==
    /\ pc = "dbg_finally"
    /\ io' = IF entry = "debug_gripper" /\ ~IsConnected
             THEN io
             ELSE Append(io, Script("disconnect", "robot"))
    /\ pc' = "done"
    /\ UNCHANGED <<args, motors, idx, results, result, locals, verdicts, denominators>>
    /\ UNCHANGED harness

\* ------------------------------------------------------------ specification

Next ==
    \/ BusStart
    \/ BusNextMotor
    \/ BusSummary
    \/ DmReadPosition
    \/ DmPromptZero
    \/ DmReadZero
    \/ DmPromptMax
    \/ DmReadMax
    \/ DmClassify
    \/ DmTestFormula
    \/ DmReturn
    \/ CalConfig
    \/ CalConnect
    \/ CalNoBus
    \/ CalDiagnose
    \/ CalVerdict
    \/ CalAnswer
    \/ CalNormal
    \/ CalDisconnect
    \/ DbgConnect
    \/ DbgReadAll
    \/ DbgTorque
    \/ DbgZero
    \/ DbgRotated
    \/ GripperCheck
    \/ GripperTest
    \/ DirectCheck
    \/ DirectTest
    \/ DbgFinally

Spec == Init /\ [][Next]_vars

\* diagnose_motor_bus called on its own, and its steps with those of
\* diagnose_motor.
InitBus == Init /\ entry = "diagnose_motor_bus"

NextBus ==
    \/ BusStart
    \/ BusNextMotor
    \/ BusSummary
    \/ DmReadPosition
    \/ DmPromptZero
    \/ DmReadZero
    \/ DmPromptMax
    \/ DmReadMax
    \/ DmClassify
    \/ DmTestFormula
    \/ DmReturn

\* The runs of diagnose_motor_bus in which no step waits forever: input()
\* returns once the operator presses ENTER, bus.read returns or raises, and
\* code that can run does.
SpecLive == InitBus /\ [][NextBus]_vars /\ WF_vars(NextBus)

\* ---------------------------------------------- a run and its repetition
\* diagnose_motor_bus called twice on the same bus and the same two motors,
\* the bus being the test double: the first run is free and the reads of one
\* call are recorded; in the second run that call gets the same outcomes
\* again and the other motor whatever it gets.

\* The motors of the repeated run.
WatchedMotors == <<MotorNames[1], MotorNames[2]>>

InitObs ==
    /\ entry = "diagnose_motor_bus"
    /\ pc = "bus_start"
    /\ cfg = NoConfig
    /\ interactive \in BOOLEAN
    /\ motors = Some(WatchedMotors)
    /\ idx = 0
    /\ results = EmptyDict
    /\ result = NoResult
    /\ zero_pos = None
    /\ max_pos = None
    /\ position_diff = None
    /\ current_pos = None
    /\ calib_value = None
    /\ all_healthy = None
    /\ cal_all_healthy = None
    /\ printed = <<>>
    /\ io = <<>>
    /\ denominators = {}
    /\ \E k \in DOMAIN WatchedMotors :
         harness = [HarnessOff EXCEPT !.mode = "record", !.target = k]

\* The first run has returned its dict; what it holds for the watched call is
\* kept, and diagnose_motor_bus is called again with the same arguments.
Rerun ==
    /\ pc = "done"
    /\ harness.mode = "record"
    /\ harness' = [harness EXCEPT
                      !.mode = "replay",
                      !.result = Some(results[MotorList[harness.target]]),
                      !.peers = \A k \in DOMAIN MotorList :
                                   k # harness.target => results[MotorList[k]].healthy]
    /\ pc' = "bus_start"
    /\ idx' = 0
    /\ all_healthy' = None
    /\ io' = <<>>
    /\ UNCHANGED <<args, motors, results, result, locals, cal_all_healthy, printed,
                   denominators>>

NextObs ==
    \/ BusStart
    \/ BusNextMotor
    \/ BusSummary
    \/ DmReadPosition
    \/ DmPromptZero
    \/ DmReadZero
    \/ DmPromptMax
    \/ DmReadMax
    \/ DmClassify
    \/ DmTestFormula
    \/ DmReturn
    \/ Rerun

SpecObs == InitObs /\ [][NextObs]_vars

\* ================================================================== claims

\* A run of diagnose_motor_bus has entered its loop.
InBusRun == entry \in {"calibrate", "diagnose_motor_bus"} /\ idx >= 1

\* The calls of diagnose_motor that have returned, and those of them whose
\* result is still the dict's entry for its motor (a later call for the same
\* name replaces the entry).
Completed == IF InBusRun THEN 1..(idx - 1) ELSE {}
Returned == {k \in Completed : \A j \in Completed : j > k => MotorList[j] # MotorList[k]}
ResultOf(k) == results[MotorList[k]]
OpsOf(k) == Ops(EventsOf(k))

\* Control is inside the loop of diagnose_motor_bus.
DiagnosePcs ==
    {"bus_loop", "dm_position", "dm_prompt_zero", "dm_read_zero", "dm_prompt_max",
     "dm_read_max", "dm_classify", "dm_test_formula", "dm_return"}

HasRange(r) == r.zero_position # None /\ r.max_position # None
Degenerate(r) == HasRange(r) /\ r.zero_position = r.max_position

\* C1: whenever diagnose_motor read a zero and a max position that are equal,
\* the returned result is unhealthy, carries the error about the zero range,
\* and reports position_range 0.
C1_DegenerateUnhealthy ==
    \A k \in Returned :
        Degenerate(ResultOf(k)) =>
            /\ ResultOf(k).healthy = FALSE
            /\ ErrNoChange \in Range(ResultOf(k).errors)
            /\ ResultOf(k).position_range = 0

\* C1 witness: a returned result whose zero and max samples are equal.
C1_Witness == \E k \in Returned : Degenerate(ResultOf(k))

\* C2: no normalization of diagnose_motor, debug_gripper or
\* debug_gripper_direct ever divides by zero, whatever the reads return.
C2_NoDivisionByZero == 0 \notin denominators

\* C2 witness: a bus run in which one motor's probe was normalized and
\* another motor's range was zero (and its normalization skipped).
C2_Witness ==
    /\ pc = "done"
    /\ denominators # {}
    /\ \E k \in Returned : Degenerate(ResultOf(k))

\* C2 witness for the scripts: debug_gripper_direct ran its three tests on a
\* zero difference.
C2_WitnessDirect ==
    /\ entry = "debug_gripper_direct"
    /\ pc = "done"
    /\ position_diff = Some(0)
    /\ idx = 3

\* C3 (as claimed): every normalized probe that equals the recorded zero
\* position is 0 percent and every one that equals the recorded max position
\* is 100 percent, for either sign of the span.
C3_EndpointsExact ==
    calib_value # None =>
        /\ current_pos = zero_pos => FracIs(calib_value[1], 0)
        /\ current_pos = max_pos => FracIs(calib_value[1], 100)

\* C4 (as claimed): the range a result reports is the signed difference
\* max_position - zero_position.
C4_SignedSpan ==
    \A k \in Returned :
        HasRange(ResultOf(k)) =>
            ResultOf(k).position_range
                = ResultOf(k).max_position[1] - ResultOf(k).zero_position[1]

\* C5: when the first read of a diagnose_motor call fails, the result is
\* unreadable and unhealthy with exactly one error, and that read is the only
\* event of the call: no prompt and no further read.
C5_PositionFailureAborts ==
    \A k \in Completed :
        OpsOf(k)[1] = "read_fail" =>
            /\ OpsOf(k) = <<"read_fail">>
            /\ k \in Returned =>
                 /\ ResultOf(k).position_readable = FALSE
                 /\ ResultOf(k).healthy = FALSE
                 /\ Len(ResultOf(k).errors) = 1

\* C5 witness: a returned call whose first read failed.
C5_Witness == \E k \in Returned : OpsOf(k)[1] = "read_fail"

\* The zero read (third event) or the max read (fifth event) of call k failed.
ZeroReadFailed(k) == Len(OpsOf(k)) >= 3 /\ OpsOf(k)[3] = "read_fail"
MaxReadFailed(k) == Len(OpsOf(k)) >= 5 /\ OpsOf(k)[5] = "read_fail"

\* The read at pc failed in this step.
FailsNow == io' # io /\ io'[Len(io')].op = "read_fail"

\* C6: when the zero read or the max read fails, the call ends there: the
\* result is unhealthy with the one error naming the failed sample, it keeps
\* position_readable and (for the max read) the zero position read before,
\* and no prompt or read follows in that call.
C6_SampleFailureAborts ==
    /\ [](\A k \in Completed :
            /\ ZeroReadFailed(k) =>
                 /\ Len(OpsOf(k)) = 3
                 /\ k \in Returned =>
                      /\ ResultOf(k).healthy = FALSE
                      /\ ResultOf(k).errors = <<ErrZero>>
                      /\ ResultOf(k).position_readable = TRUE
            /\ MaxReadFailed(k) =>
                 /\ Len(OpsOf(k)) = 5
                 /\ k \in Returned =>
                      /\ ResultOf(k).healthy = FALSE
                      /\ ResultOf(k).errors = <<ErrMax>>
                      /\ ResultOf(k).position_readable = TRUE
                      /\ ResultOf(k).zero_position # None)
    /\ [][(pc \in {"dm_read_zero", "dm_read_max"} /\ FailsNow) =>
            /\ pc' = "bus_loop"
            /\ idx' = idx + 1
            /\ results'[result.motor_name].position_readable = result.position_readable
            /\ results'[result.motor_name].zero_position = result.zero_position
            /\ results'[result.motor_name].zero_position = zero_pos
            /\ results'[result.motor_name].warnings = result.warnings]_vars

\* C6 witness: a returned call whose max read failed after its zero read
\* succeeded.
C6_Witness == \E k \in Returned : MaxReadFailed(k) /\ ResultOf(k).zero_position # None

\* C7: once control has left the loop of diagnose_motor_bus, every entry of
\* the motor list was diagnosed (its first read was issued) and has a result,
\* whatever reads failed.
C7_EveryMotorReported ==
    (InBusRun /\ pc \notin DiagnosePcs) =>
        /\ idx = Len(MotorList) + 1
        /\ DOMAIN results = Range(MotorList)
        /\ \A k \in 1..Len(MotorList) : OpsOf(k) # <<>>

\* C7 witness: a finished run in which a call with a failed read is followed
\* by a call that took both samples.
C7_Witness ==
    /\ InBusRun /\ pc = "done"
    /\ \E k1, k2 \in Returned :
         /\ k1 < k2
         /\ "read_fail" \in Range(OpsOf(k1))
         /\ HasRange(ResultOf(k2))

\* C8: the verdict diagnose_motor_bus derives from the error lists is "not
\* all healthy" exactly when some result is unhealthy, and it equals the
\* all(r.healthy) that calibrate computes.
C8_VerdictsAgree ==
    /\ all_healthy # None =>
         (all_healthy[1] = FALSE <=> \E name \in DOMAIN results : ~results[name].healthy)
    /\ cal_all_healthy # None => cal_all_healthy = all_healthy

\* C8 witness: calibrate found the diagnostics failed, with one motor healthy
\* and one not.
C8_Witness ==
    /\ cal_all_healthy = Some(FALSE)
    /\ \E a, b \in DOMAIN results : results[a].healthy /\ ~results[b].healthy

\* C9: a returned result is unhealthy exactly when it has an error, or its
\* position is unreadable, or its measured range is degenerate.
C9_HealthyDerived ==
    \A k \in Returned :
        ResultOf(k).healthy
            = ~(\/ ResultOf(k).errors # <<>>
                \/ ~ResultOf(k).position_readable
                \/ Degenerate(ResultOf(k)))

\* C9 witness: a finished run holding a healthy result that carries a
\* warning and an unhealthy result.
C9_Witness ==
    /\ InBusRun /\ pc = "done"
    /\ \E a, b \in Returned :
         /\ ResultOf(a).healthy /\ ResultOf(a).warnings # <<>>
         /\ ~ResultOf(b).healthy

Narrow(r) ==
    /\ HasRange(r)
    /\ 0 < Abs(r.max_position[1] - r.zero_position[1])
    /\ Abs(r.max_position[1] - r.zero_position[1]) < 100

\* C10: a result whose zero and max samples differ by less than 100 (and by
\* more than 0) carries the small-range warning, no error, and is healthy.
C10_NarrowWarnsOnly ==
    \A k \in Returned :
        Narrow(ResultOf(k)) =>
            /\ WarnSmallRange \in Range(ResultOf(k).warnings)
            /\ ResultOf(k).errors = <<>>
            /\ ResultOf(k).healthy = TRUE

\* C10 witness: returned results with a narrow range in each direction.
C10_Witness ==
    \E a, b \in Returned :
        /\ Narrow(ResultOf(a)) /\ ResultOf(a).max_position[1] > ResultOf(a).zero_position[1]
        /\ Narrow(ResultOf(b)) /\ ResultOf(b).max_position[1] < ResultOf(b).zero_position[1]

Wide(r) == HasRange(r) /\ Abs(r.max_position[1] - r.zero_position[1]) >= 100

\* C11: a result whose zero and max samples differ by 100 or more carries no
\* small-range warning and no error, and is healthy.
C11_WideIsHealthy ==
    \A k \in Returned :
        Wide(ResultOf(k)) =>
            /\ WarnSmallRange \notin Range(ResultOf(k).warnings)
            /\ ResultOf(k).errors = <<>>
            /\ ResultOf(k).healthy = TRUE

\* C11 witness: a returned result whose samples differ by exactly 100, with
\* the max sample below the zero sample.
C11_Witness ==
    \E k \in Returned :
        ResultOf(k).zero_position # None /\ ResultOf(k).max_position # None
        /\ ResultOf(k).zero_position[1] - ResultOf(k).max_position[1] = 100

\* The exact value of the fraction lies in [lo, hi].
FracWithin(f, lo, hi) == ~FracLess(f, lo) /\ ~FracGreater(f, hi)

\* The probe of diagnose_motor was read and normalized in this step.
ProbedNow == pc = "dm_test_formula" /\ calib_value' # None

\* C12 (as claimed): a probe that normalizes below -10 or above 110 adds
\* exactly one warning, no error, and leaves healthy as it is; a probe that
\* normalizes to a value in [-10, 110], bounds included, adds no warning.
C12_BandWarning ==
    [][ProbedNow =>
          /\ result'.errors = result.errors
          /\ result'.healthy = result.healthy
          /\ result'.warnings =
                IF FracWithin(calib_value'[1], -10, 110)
                THEN result.warnings
                ELSE Append(result.warnings, WarnOutOfRange)]_vars

\* The probe read of diagnose_motor failed in this step.
ProbeFailsNow == pc = "dm_test_formula" /\ FailsNow

\* C13 (as claimed): a failed probe read appends one warning to the result,
\* no error, and leaves healthy as it is.
C13_ProbeFailureWarns ==
    [][ProbeFailsNow =>
          /\ Len(result'.warnings) = Len(result.warnings) + 1
          /\ result'.errors = result.errors
          /\ result'.healthy = result.healthy]_vars

\* The calls of diagnose_motor made so far, the running one included.
Started == IF InBusRun THEN {k \in 1..idx : k <= Len(MotorList)} ELSE {}

IsRead(op) == op \in {"read_ok", "read_fail"}
Kind(op) == IF IsRead(op) THEN "read" ELSE op

\* The events of an interactive diagnose_motor in order: position read, zero
\* prompt, zero read, max prompt, max read, probe read.
Stages == <<"read", "prompt_zero", "read", "prompt_max", "read", "read">>

\* The events of call k are a prefix of Stages in which only the last event
\* can be a failed read.
InStageOrder(k) ==
    /\ Len(OpsOf(k)) <= Len(Stages)
    /\ \A i \in 1..Len(OpsOf(k)) :
         /\ Kind(OpsOf(k)[i]) = Stages[i]
         /\ OpsOf(k)[i] = "read_fail" => i = Len(OpsOf(k))

\* C14: the events of every diagnose_motor call follow the order position
\* read, zero prompt, zero read, max prompt, max read, classification, probe;
\* no stage follows a failed read; the range is classified after the max read
\* and before the probe; a call that has returned gets no further event.
C14_StageOrder ==
    /\ [](\A k \in Started :
            /\ InStageOrder(k)
            /\ ~interactive => Len(OpsOf(k)) <= 1
            /\ (k = idx /\ pc = "dm_classify") => (Len(OpsOf(k)) = 5 /\ position_diff = None)
            /\ (k = idx /\ pc = "dm_test_formula") => (Len(OpsOf(k)) = 5 /\ position_diff # None)
            /\ (k = idx /\ Len(OpsOf(k)) = 6) => (pc = "dm_return" /\ position_diff # None)
            /\ (k \in Returned /\ Len(OpsOf(k)) = 6) => ResultOf(k).position_range > 0)
    /\ [][\A k \in Completed : EventsOf(k)' = EventsOf(k)]_vars

\* C14 witness: a returned call that went through every stage, the probe
\* included.
C14_Witness ==
    \E k \in Returned :
        OpsOf(k) = <<"read_ok", "prompt_zero", "read_ok", "prompt_max", "read_ok", "read_ok">>

\* The stages of diagnose_motor in the order of the code.
StageNo(p) ==
    CASE p = "dm_position" -> 1
      [] p = "dm_prompt_zero" -> 2
      [] p = "dm_read_zero" -> 3
      [] p = "dm_prompt_max" -> 4
      [] p = "dm_read_max" -> 5
      [] p = "dm_classify" -> 6
      [] p = "dm_test_formula" -> 7
      [] p = "dm_return" -> 8
      [] OTHER -> 0

Reads(ops) == Len(SelectSeq(ops, IsRead))
Prompts(ops) == Len(ops) - Reads(ops)

\* C16: diagnose_motor never retries: within a call control only moves
\* forward through the stages, each stage entered issues exactly one read
\* (one per prompt, plus the position read, plus the probe), and a failed read
\* is the last bus operation of the call.
C16_NoRetry ==
    /\ [](\A k \in Started :
            /\ Reads(OpsOf(k)) <= 4
            /\ \A i \in 1..Len(OpsOf(k)) : OpsOf(k)[i] = "read_fail" => i = Len(OpsOf(k))
            /\ k \in Completed =>
                 Reads(OpsOf(k)) = 1 + Prompts(OpsOf(k)) + (IF Len(OpsOf(k)) = 6 THEN 1 ELSE 0))
    /\ [][(StageNo(pc) > 0 /\ StageNo(pc') > 0 /\ idx' = idx) => StageNo(pc') > StageNo(pc)]_vars
    /\ [][(StageNo(pc) > 0 /\ FailsNow) => pc' \in {"bus_loop", "dm_return"}]_vars

\* C16 witness: a returned call whose max read failed, after three reads
\* and two prompts.
C16_Witness ==
    \E k \in Returned :
        OpsOf(k) = <<"read_ok", "prompt_zero", "read_ok", "prompt_max", "read_fail">>

\* The call took both samples and they differ.
Probes(r) == HasRange(r) /\ ~Degenerate(r)

InScript == entry \in {"debug_gripper", "debug_gripper_direct"}

\* The probes a script has prompted for, and whether one of their reads failed.
TestsTaken == Len(SelectSeq(io, LAMBDA e : e.op = "prompt_test"))
TestReadFailed ==
    \E i \in 1..(Len(io) - 1) : io[i].op = "prompt_test" /\ io[i + 1].op = "read_fail"

C15_WitnessScript == entry = "debug_gripper" /\ pc = "done" /\ TestsTaken = 3

\* The events of the diagnose_motor calls, in the order they happened.
CallEvents == SelectSeq(io, LAMBDA e : e.call > 0)

\* C18: diagnose_motor_bus iterates the caller's list, or the bus's motor
\* names when the argument is None; when it returns, the keys of its dict are
\* exactly the names in that list, and diagnose_motor ran once per list entry,
\* in list order, on the motor of that entry.
C18_KeysAndOrder ==
    /\ [][pc = "bus_start" =>
            motors' = IF motors = None THEN Some(BusMotors) ELSE motors]_vars
    /\ [][pc # "bus_start" => motors' = motors \/ pc = "cal_connected"]_vars
    /\ [](InBusRun =>
            /\ \A i \in DOMAIN CallEvents :
                 /\ CallEvents[i].call \in Started
                 /\ CallEvents[i].motor = MotorList[CallEvents[i].call]
                 /\ i > 1 => CallEvents[i - 1].call <= CallEvents[i].call
            /\ \A k \in Completed : Reads(OpsOf(k)) >= 1 /\ IsRead(OpsOf(k)[1])
            /\ DOMAIN results = {MotorList[k] : k \in Completed}
            /\ \A k \in Returned : ResultOf(k).motor_name = MotorList[k]
            /\ pc \notin DiagnosePcs => Completed = DOMAIN MotorList)

\* C18 witness: a finished run on a caller's list in another order than the
\* bus's, with a result for each of its two motors.
C18_Witness ==
    /\ entry = "diagnose_motor_bus" /\ pc = "done"
    /\ motors = Some(<<BusMotors[2], BusMotors[1]>>)
    /\ DOMAIN results = {BusMotors[1], BusMotors[2]}

\* The operations the diagnostic core may issue: reads of Present_Position
\* and prompts.
ReadOnlyOps == {"read_ok", "read_fail", "prompt_zero", "prompt_max"}

\* C19: diagnose_motor and diagnose_motor_bus issue only Present_Position
\* reads (and prompts): no event of a diagnose_motor call is a write, and a
\* run of diagnose_motor_bus contains no other bus operation.
C19_ReadsOnly ==
    \A i \in DOMAIN io :
        (io[i].call > 0 \/ entry = "diagnose_motor_bus") => io[i].op \in ReadOnlyOps

\* C19 witness: a finished diagnose_motor_bus run in which a motor went
\* through all four reads.
C19_Witness ==
    /\ entry = "diagnose_motor_bus" /\ pc = "done"
    /\ \E k \in Returned : Reads(OpsOf(k)) = 4

\* The motor of the watched call, and the watched call having returned in the
\* second run.
Watched == MotorList[harness.target]
Replayed == harness.mode = "replay" /\ pc # "bus_start" /\ idx > harness.target

\* A step inside a diagnose_motor call.
InCall == pc \in DiagnosePcs \ {"bus_loop"}

\* C17: in a bus diagnostic the result of a motor depends only on the
\* outcomes of its own reads: in a second run in which that motor's reads
\* have the outcomes of the first and the other motor's reads have any, the
\* motor's result is the one of the first run (and the call took every
\* recorded read); no step of a call changes the dict entry of another motor,
\* and every call starts with empty warnings and errors.
C17_OtherMotorsDoNotMatter ==
    /\ [](Replayed => results[Watched] = harness.result[1] /\ harness.outcomes = <<>>)
    /\ [][pc # "bus_start" =>
            \A name \in DOMAIN results :
                \/ InCall /\ name = result.motor_name
                \/ name \in DOMAIN results' /\ results'[name] = results[name]]_vars
    /\ [][pc = "bus_loop" /\ pc' = "dm_position" =>
            result'.warnings = <<>> /\ result'.errors = <<>>]_vars

\* C17 witness: the second run is over; the other motor was healthy in the
\* first run and failed in the second, and the watched motor, diagnosed after
\* it, got the result it had.
C17_Witness ==
    /\ harness.mode = "replay" /\ pc = "done"
    /\ harness.target = 2
    /\ harness.peers /\ ~results[MotorList[1]].healthy
    /\ results[Watched] = harness.result[1]
    /\ harness.result[1].healthy

\* The watched call of the second run returns in this step.
ReplayReturns ==
    /\ harness.mode = "replay" /\ idx = harness.target
    /\ InCall /\ pc' = "bus_loop"

\* C20: diagnose_motor is deterministic and keeps no state between calls:
\* every call starts from the same fresh result and unset locals, and a call
\* of the second run on the same bus that observes the read outcomes a call
\* of the first run observed issues the same reads and returns a result equal
\* to the first one in every field.
C20_SameOutcomesSameResult ==
    /\ [][ReplayReturns =>
            /\ harness'.outcomes = <<>>
            /\ \A field \in DOMAIN harness.result[1] :
                 results'[result.motor_name][field] = harness.result[1][field]]_vars
    /\ [][pc = "bus_loop" /\ pc' = "dm_position" =>
            /\ result'.motor_name = MotorList[idx]
            /\ result'.healthy /\ ~result'.position_readable /\ ~result'.position_changes
            /\ result'.position_range = 0
            /\ result'.zero_position = None /\ result'.max_position = None
            /\ result'.warnings = <<>> /\ result'.errors = <<>>
            /\ locals' = <<None, None, None, None, None>>]_vars

\* C20 witness: the second run is over, and its first call returned, as in
\* the first run, a result with a measured range and the warning of a probe
\* outside the band.
C20_Witness ==
    /\ harness.mode = "replay" /\ pc = "done"
    /\ harness.target = 1
    /\ results[Watched] = harness.result[1]
    /\ HasRange(results[Watched])
    /\ WarnOutOfRange \in Range(results[Watched].warnings)

\* C21: provided every prompt is acknowledged and every read returns or
\* fails, each diagnose_motor call that was entered is left again, which
\* happens only by returning a result to the loop, and
\* diagnose_motor_bus returns after a call for each entry of its list, with a
\* result for each name in it.
C21_EventuallyReturns ==
    /\ InCall ~> ~InCall
    /\ [][InCall /\ ~InCall' =>
            /\ pc' = "bus_loop" /\ idx' = idx + 1
            /\ result.motor_name \in DOMAIN results']_vars
    /\ (pc = "bus_start") ~>
          /\ pc \in {"done", "cal_verdict"}
          /\ motors # None
          /\ Completed = DOMAIN MotorList
          /\ DOMAIN results = Range(MotorList)
          /\ all_healthy # None

\* C21 witness: an interactive diagnose_motor_bus run over two motors has
\* returned, one motor having gone through every stage and one having
\* failed its zero read.
C21_Witness ==
    /\ entry = "diagnose_motor_bus" /\ pc = "done" /\ interactive
    /\ Len(MotorList) = 2
    /\ \E k \in Returned : Reads(OpsOf(k)) = 4
    /\ \E k \in Returned : ErrZero \in Range(ResultOf(k).errors)

\* The positions in io of the device.calibrate() calls.
CalibrateCalls == {i \in DOMAIN io : io[i].op = "calibrate"}

\* An answer that is a single y or Y with nothing but blanks around it.
IsYes(answer) == SelectSeq(answer, LAMBDA c : c # " ") \in {<<"y">>, <<"Y">>}

\* C22: in calibrate with --diagnose, device.calibrate() is called only when
\* the device has a bus, the bus diagnostic has finished for every motor
\* with every result healthy, and the operator, asked right before, answered
\* y (in either case, blanks around it ignored); with an unhealthy motor,
\* another answer or no bus it is never called.
C22_CalibrateOnlyWhenHealthyAndYes ==
    /\ [](entry = "calibrate" /\ cfg.diagnose =>
            /\ \A i \in CalibrateCalls :
                 /\ cfg.has_bus
                 /\ motors # None /\ Completed = DOMAIN MotorList
                 /\ AllHealthy(results) /\ cal_all_healthy = Some(TRUE)
                 /\ i > 1 /\ io[i - 1].op = "prompt_proceed"
                 /\ \A j \in 1..(i - 1) : io[j].op # "calibrate"
            /\ cal_all_healthy = Some(FALSE) =>
                 pc \in {"cal_disconnect", "done"} /\ ~AllHealthy(results))
    /\ [][pc = "cal_ask" =>
            \E answer \in Answers :
                io' = io \o <<Event("prompt_proceed", 0, "device")>>
                         \o (IF IsYes(answer)
                             THEN <<Event("calibrate", 0, "device")>> ELSE <<>>)]_vars
    /\ [](\A answer \in Answers : SaysYes(answer) <=> IsYes(answer))

\* C22 witness: calibrate --diagnose has ended after device.calibrate(), the
\* diagnostic having found two healthy motors, one with a warning.
C22_Witness ==
    /\ entry = "calibrate" /\ cfg.diagnose /\ pc = "done"
    /\ CalibrateCalls # {}
    /\ Cardinality(DOMAIN results) = 2
    /\ \E name \in DOMAIN results : results[name].warnings # <<>>

\* C22 witness of the refusal: calibrate --diagnose has ended without
\* device.calibrate() although every motor was healthy.
C22_WitnessDeclined ==
    /\ entry = "calibrate" /\ cfg.diagnose /\ pc = "done"
    /\ cal_all_healthy = Some(TRUE)
    /\ CalibrateCalls = {}

\* C23: with interactive false a diagnose_motor call issues exactly one read
\* and no prompt, and its result has zero_position and max_position unset,
\* position_range 0, no warnings, and healthy (and position_readable) true
\* exactly when the read succeeded.
C23_NonInteractiveReadsOnce ==
    (InBusRun /\ ~interactive) =>
        /\ \A k \in Completed : OpsOf(k) \in {<<"read_ok">>, <<"read_fail">>}
        /\ \A k \in Returned :
             /\ ResultOf(k).zero_position = None
             /\ ResultOf(k).max_position = None
             /\ ResultOf(k).position_range = 0
             /\ ResultOf(k).warnings = <<>>
             /\ ResultOf(k).healthy <=> OpsOf(k) = <<"read_ok">>
             /\ ResultOf(k).position_readable <=> OpsOf(k) = <<"read_ok">>
             /\ ResultOf(k).errors =
                  (IF OpsOf(k) = <<"read_ok">> THEN <<>> ELSE <<ErrPosition>>)

\* C23 witness: a non-interactive run over two motors has returned, the read
\* of one motor having succeeded and the read of the other having failed.
C23_Witness ==
    /\ entry = "diagnose_motor_bus" /\ ~interactive /\ pc = "done"
    /\ \E k \in Returned : ResultOf(k).healthy
    /\ \E k \in Returned : ~ResultOf(k).healthy

\* C24: in every result diagnose_motor returned, max_position is set only if
\* zero_position is, zero_position only if position_readable is true,
\* position_range is not negative and is nonzero only if both positions are
\* set, and position_changes is true exactly when position_range > 0.
C24_ResultShape ==
    \A k \in Returned :
        LET r == ResultOf(k)
        IN  /\ r.max_position # None => r.zero_position # None
            /\ r.zero_position # None => r.position_readable
            /\ r.position_range >= 0
            /\ r.position_range # 0 => HasRange(r)
            /\ r.position_changes <=> r.position_range > 0

\* C24 witness: a run returned a result with a range that is small but not
\* zero, one whose max read failed after the zero read, and so both kinds
\* of result the rule distinguishes.
C24_Witness ==
    /\ pc = "done"
    /\ \E k \in Returned : Narrow(ResultOf(k)) /\ ResultOf(k).position_changes
    /\ \E k \in Returned :
         /\ ResultOf(k).zero_position # None
         /\ ResultOf(k).max_position = None

\* The positions in io of the device.disconnect() calls.
Disconnects == {i \in DOMAIN io : io[i].op = "disconnect"}

\* C25: a run of calibrate that has returned called device.disconnect()
\* exactly once, as its last operation, after device.connect() (its first)
\* and after every read, prompt and calibrate() call; a run that has not
\* returned has not disconnected.
C25_DisconnectOnceAtEnd ==
    entry = "calibrate" =>
        IF pc = "done"
        THEN /\ Disconnects = {Len(io)}
             /\ Len(io) >= 2
             /\ io[1].op = "connect"
             /\ \A i \in 2..Len(io) : io[i].op # "connect"
        ELSE Disconnects = {}

\* C25 witness: calibrate --diagnose has returned after a diagnostic that
\* found an unhealthy motor: reads and prompts, no calibrate(), one
\* disconnect.
C25_Witness ==
    /\ entry = "calibrate" /\ pc = "done"
    /\ cal_all_healthy = Some(FALSE)
    /\ \E i \in DOMAIN io : io[i].op = "prompt_max"
    /\ Cardinality(Disconnects) = 1

\* C25 witnesses of the other ways calibrate returns: without a bus, and in
\* normal calibration mode.
C25_WitnessNoBus ==
    /\ entry = "calibrate" /\ pc = "done"
    /\ cfg.diagnose /\ ~cfg.has_bus
    /\ Ops(io) = <<"connect", "disconnect">>

C25_WitnessNormal ==
    /\ entry = "calibrate" /\ pc = "done"
    /\ ~cfg.diagnose
    /\ Ops(io) = <<"connect", "calibrate", "disconnect">>

\* The class diagnose_motor gives a zero/max pair, in the words of the
\* scripts: the error of a zero range, the warning of a small one, or neither.
DiagnoseClass(zero, max) ==
    LET r == Classify(NewResult("gripper"), PositionDiff(zero, max))
    IN  IF ErrNoChange \in Range(r.errors) THEN PrintZero
        ELSE IF WarnSmallRange \in Range(r.warnings) THEN PrintSmall
        ELSE PrintAcceptable

\* Two fractions of nonzero denominators are the same number.
SameFrac(f, g) == f.num * g.den = g.num * f.den

\* C26 (as claimed): on every zero/rotated pair a debug script sampled, the
\* class it prints is the class diagnose_motor gives the pair, and the
\* percentage it computes for a probe is the percentage diagnose_motor
\* computes for the same probe.
C26_ScriptsAgreeWithDiagnoseMotor ==
    (InScript /\ position_diff # None) =>
        /\ printed[1] = DiagnoseClass(zero_pos[1], max_pos[1])
        /\ (calib_value # None /\ TestsFormula(PositionDiff(zero_pos[1], max_pos[1]))) =>
              SameFrac(calib_value[1],
                       Normalize(current_pos[1], zero_pos[1],
                                 PositionDiff(zero_pos[1], max_pos[1])))

\* Exactly one of teleop and robot was given to the constructor.
ExactlyOneGiven == (cfg.teleop = None) # (cfg.robot = None)

\* C27: constructing CalibrateConfig raises ValueError unless exactly one of
\* teleop and robot is given (no device is set then, and calibrate does not
\* run); when exactly one is given the config is constructed and device is
\* that one.
C27_ExactlyOneDevice ==
    entry = "calibrate" =>
        /\ pc = "raised" => ~ExactlyOneGiven /\ cfg.device = None /\ io = <<>>
        /\ pc \notin {"cal_config", "raised"} =>
              /\ ExactlyOneGiven
              /\ cfg.device # None
              /\ cfg.device = (IF cfg.robot # None THEN cfg.robot ELSE cfg.teleop)

\* C27 witness: a config with only a teleop was constructed and calibrate
\* ran on it to its end.
C27_Witness ==
    /\ entry = "calibrate" /\ pc = "done"
    /\ cfg.robot = None /\ cfg.device = Some("teleop")

\* C27 witnesses of the refusals: both given, and neither.
C27_WitnessBoth ==
    /\ entry = "calibrate" /\ pc = "raised"
    /\ cfg.teleop # None /\ cfg.robot # None

C27_WitnessNeither ==
    /\ entry = "calibrate" /\ pc = "raised"
    /\ cfg.teleop = None /\ cfg.robot = None

=============================================================================
